---- MODULE Spec2Model ----
(***************************************************************************)
(* Model of submissions/KLayout Python/EBeam_LukasChrostowski_MZI_1310.py *)
(* : a straight-line layout script.  Every statement of the script that   *)
(* changes state is one action; pc holds the line number of the next      *)
(* statement.  Calls into the layout library either return or raise; the  *)
(* script has no try/except, so a raise ends the run (pc = "error").      *)
(***************************************************************************)
EXTENDS Integers, Sequences, FiniteSets, TLC

VARIABLES
    pc,               \* line of the next statement, or "done" / "error"
    exc,              \* the uncaught exception that ended the run, "" if none
    SiEPIC_version,   \* SiEPIC.__version__ as <<major, minor, micro>>
    Python_Env,       \* SiEPIC._globals.Python_Env
    designer_name,    \* line 24
    export_type,      \* line 26
    top_cell_name,    \* line 25
    ly_cells,         \* cells this run created in the layout, by cell index
    insts,            \* instances placed in the layout, in insertion order
    shapes,           \* shapes inserted (floor plan box, text labels), in order
    links,            \* pin-to-pin joins and routed waveguides, in creation order
    files,            \* files written by this run
    cell,             \* script name `cell`: index into ly_cells, 0 = unbound
    cell_ebeam_gc,    \* script names bound by create_cell (cell index, 0 = unbound)
    cell_ebeam_y,
    cell_ebeam_taper,
    x, y, t,          \* script names of lines 79-82
    instGC1, instGC2, instTaper1, instY1, instTaper2, instY2,  \* index into insts
    text,             \* script name `text` (line 86)
    file_out,         \* script name `file_out`
    file_lyrdb,       \* script name `file_lyrdb`
    num_errors,       \* script name `num_errors`, Unbound before line 147
    stdout,           \* what print() wrote
    calls             \* library calls made so far: [op, target, file, ok]

ctl      == <<pc, exc>>
config   == <<SiEPIC_version, Python_Env, designer_name, export_type, top_cell_name>>
layout   == <<ly_cells, insts, shapes, links>>
libnames == <<cell, cell_ebeam_gc, cell_ebeam_y, cell_ebeam_taper>>
xyt      == <<x, y, t>>
instvars == <<instGC1, instGC2, instTaper1, instY1, instTaper2, instY2>>
outvars  == <<text, file_out, file_lyrdb, num_errors>>
vars     == <<ctl, config, layout, files, libnames, xyt, instvars, outvars, stdout, calls>>

----------------------------------------------------------------------------
(* Bounds of the model *)

\* layout_check returns a count in 0..MaxErrors
MaxErrors == 2

\* installed library versions tried
Versions == { <<0, 4, 9>>, <<0, 5, 3>>, <<0, 5, 4>>, <<0, 5, 5>>, <<0, 10, 0>>, <<1, 0, 0>> }

\* values of Python_Env: external Python, or inside the KLayout application
Envs == { "Script", "KLayout_GUI" }

\* values of the two editable names of lines 24 and 26; the file as
\* committed has 'LukasChrostowski' and 'static'
DesignerNames == { "LukasChrostowski", "A" }
ExportTypes   == { "static", "PCell" }

----------------------------------------------------------------------------
(* Values *)

Unbound == 0 - 1

NoFile  == <<>>

\* pya.Trans(rot, x, y)
Trans(rot, u, v) == [rot |-> rot, x |-> u, y |-> v]

\* the transform of an instance placed by pin alignment: fixed by the library
NoTrans == [rot |-> "pin", x |-> 0, y |-> 0]

NoPin == [inst |-> 0, pin |-> "", pinB |-> ""]

\* '<pre>%s<post>' % arg
\* (faulty variant: the text after the placeholder is lost)
PercentS_DropSuffix(pre, post, arg) == pre \o arg
PercentS(pre, post, arg) == pre \o arg \o post

\* version.parse(a) < version.parse(b) for release versions: compared
\* component by component as integers, most significant first
\* (faulty variant: the micro component is ignored)
VersionLess_NoMicro(a, b) ==
    \/ a[1] < b[1]
    \/ a[1] = b[1] /\ a[2] < b[2]
VersionLess(a, b) ==
    \/ a[1] < b[1]
    \/ a[1] = b[1] /\ a[2] < b[2]
    \/ a[1] = b[1] /\ a[2] = b[2] /\ a[3] < b[3]

\* truth value of an integer used as a condition
\* (faulty variant: every value counts as true)
Truthy_Always(v) == TRUE
Truthy(v) == v # 0

\* os.path.join of path components; a path is the sequence of its components
Join(dir, rest) == dir \o rest

\* os.path.dirname(os.path.realpath(__file__)) and the file's base name
\* without its extension (lines 137-138)
path     == << "submissions", "KLayout Python" >>
filename == "EBeam_LukasChrostowski_MZI_1310"

----------------------------------------------------------------------------
(* Statement order of the script.  Succ(l) is the statement that follows  *)
(* l when l falls through.                                                *)

\* (faulty variant: the export statements are left out)
ProgramOrder_NoExport ==
    << "L25", "L44", "L49", "L57", "L58", "L68", "L69", "L70",
       "L79", "L80", "L81", "L82", "L83", "L86", "L87",
       "L90", "L91", "L92", "L93", "L97", "L98", "L100",
       "L134", "L146", "L147", "L148", "L151", "L153", "done" >>

ProgramOrder ==
    << "L25", "L44", "L49", "L57", "L58", "L68", "L69", "L70",
       "L79", "L80", "L81", "L82", "L83", "L86", "L87",
       "L90", "L91", "L92", "L93", "L97", "L98", "L100",
       "L134", "L139", "L140", "L142", "L143",
       "L146", "L147", "L148", "L151", "L153", "done" >>

Succ(l) ==
    LET i == CHOOSE k \in 1..Len(ProgramOrder) : ProgramOrder[k] = l
    IN  ProgramOrder[i + 1]

----------------------------------------------------------------------------
Init ==
    /\ pc = "L25"
    /\ exc = ""
    /\ SiEPIC_version \in Versions
    /\ Python_Env \in Envs
    /\ designer_name \in DesignerNames
    /\ export_type \in ExportTypes
    /\ top_cell_name = ""
    /\ ly_cells = <<>>
    /\ insts = <<>>
    /\ shapes = <<>>
    /\ links = <<>>
    /\ files = {}
    /\ cell = 0
    /\ cell_ebeam_gc = 0
    /\ cell_ebeam_y = 0
    /\ cell_ebeam_taper = 0
    /\ x = Unbound
    /\ y = Unbound
    /\ t = NoTrans
    /\ instGC1 = 0
    /\ instGC2 = 0
    /\ instTaper1 = 0
    /\ instY1 = 0
    /\ instTaper2 = 0
    /\ instY2 = 0
    /\ text = [string |-> "", trans |-> NoTrans]
    /\ file_out = NoFile
    /\ file_lyrdb = NoFile
    /\ num_errors = Unbound
    /\ stdout = <<>>
    /\ calls = <<>>

----------------------------------------------------------------------------
(* Library calls.  target is the index of the cell the call works on  *)
(* (0 when it takes none), file the path it is given or returns.       *)

Called(op, target, file, ok) ==
    Append(calls, [op |-> op, target |-> target, file |-> file, ok |-> ok])

\* (faulty variant: the exception is swallowed and the script goes on)
Raises_Swallowed(op, target, file, mayWrite) ==
    /\ pc' = Succ(pc)
    /\ exc' = ""
    /\ calls' = Called(op, target, file, FALSE)
    /\ \E w \in SUBSET mayWrite : files' = files \cup w
    /\ UNCHANGED <<config, layout, libnames, xyt, instvars, outvars, stdout>>

\* the call raises: nothing catches it, the run ends at this statement.
\* A call that writes files may have written any of them before it raised.
Raises(op, target, file, mayWrite) ==
    /\ pc' = "error"
    /\ exc' = "LibraryError"
    /\ calls' = Called(op, target, file, FALSE)
    /\ \E w \in SUBSET mayWrite : files' = files \cup w
    /\ UNCHANGED <<config, layout, libnames, xyt, instvars, outvars, stdout>>

\* the call returns and the script goes on with the next statement
Returns(op, target, file) ==
    /\ pc' = Succ(pc)
    /\ exc' = exc
    /\ calls' = Called(op, target, file, TRUE)

----------------------------------------------------------------------------
(* Lines 24-50: names, banner, version guard *)

\* line 25
AssignTopCellName ==
    /\ pc = "L25"
    /\ top_cell_name' = PercentS("EBeam_", "_MZI", designer_name)
    /\ pc' = Succ(pc)
    /\ UNCHANGED <<exc, SiEPIC_version, Python_Env, designer_name, export_type,
                   layout, files, libnames, xyt, instvars, outvars, stdout, calls>>

\* line 44
PrintBanner ==
    /\ pc = "L44"
    /\ stdout' = Append(stdout, "EBeam_LukasChrostowski_MZI layout script")
    /\ pc' = Succ(pc)
    /\ UNCHANGED <<exc, config, layout, files, libnames, xyt, instvars, outvars, calls>>

\* the version named on line 49
MinVersion == <<0, 5, 4>>

\* lines 49-50
VersionGuard ==
    /\ pc = "L49"
    /\ IF VersionLess(SiEPIC_version, MinVersion)
       THEN /\ pc' = "error"
            /\ exc' = "Errors: This example requires SiEPIC-Tools version 0.5.4 or greater."
       ELSE /\ pc' = Succ(pc)
            /\ exc' = exc
    /\ UNCHANGED <<config, layout, files, libnames, xyt, instvars, outvars, stdout, calls>>

----------------------------------------------------------------------------
(* Lines 57-75: layout, floor plan, library cells *)

\* line 57: cell, ly = new_layout(tech_name, top_cell_name, GUI=True, overwrite=True)
NewLayout ==
    /\ pc = "L57"
    /\ \/ /\ Returns("new_layout", 0, NoFile)
          /\ ly_cells' = Append(ly_cells, [name |-> top_cell_name, lib |-> "", kind |-> "top"])
          /\ cell' = Len(ly_cells) + 1
          /\ UNCHANGED <<config, insts, shapes, links, files, cell_ebeam_gc, cell_ebeam_y,
                         cell_ebeam_taper, xyt, instvars, outvars, stdout>>
       \/ Raises("new_layout", 0, NoFile, {})

\* line 58: floorplan(cell, 605e3, 410e3)
Floorplan ==
    /\ pc = "L58"
    /\ \/ /\ Returns("floorplan", cell, NoFile)
          /\ shapes' = Append(shapes, [layer |-> "FloorPlan", cell |-> cell, string |-> "",
                                       trans |-> NoTrans, box |-> <<0, 0, 605000, 410000>>])
          /\ UNCHANGED <<config, ly_cells, insts, links, files, libnames, xyt, instvars,
                         outvars, stdout>>
       \/ Raises("floorplan", cell, NoFile, {})

\* ly.create_cell(name, lib, params): the new cell and its index
CreateCell(name, lib) ==
    Append(ly_cells, [name |-> name, lib |-> lib, kind |-> "lib"])

\* line 68
CreateCellGC ==
    /\ pc = "L68"
    /\ \/ /\ Returns("create_cell", 0, NoFile)
          /\ ly_cells' = CreateCell("ebeam_GC_SiN_TE_1310_8deg", "EBeam-SiN")
          /\ cell_ebeam_gc' = Len(ly_cells) + 1
          /\ UNCHANGED <<config, insts, shapes, links, files, cell, cell_ebeam_y,
                         cell_ebeam_taper, xyt, instvars, outvars, stdout>>
       \/ Raises("create_cell", 0, NoFile, {})

\* line 69
CreateCellY ==
    /\ pc = "L69"
    /\ \/ /\ Returns("create_cell", 0, NoFile)
          /\ ly_cells' = CreateCell("ebeam_YBranch_te1310", "EBeam-SiN")
          /\ cell_ebeam_y' = Len(ly_cells) + 1
          /\ UNCHANGED <<config, insts, shapes, links, files, cell, cell_ebeam_gc,
                         cell_ebeam_taper, xyt, instvars, outvars, stdout>>
       \/ Raises("create_cell", 0, NoFile, {})

\* lines 70-75
CreateCellTaper ==
    /\ pc = "L70"
    /\ \/ /\ Returns("create_cell", 0, NoFile)
          /\ ly_cells' = CreateCell("taper_bezier", "EBeam_Beta")
          /\ cell_ebeam_taper' = Len(ly_cells) + 1
          /\ UNCHANGED <<config, insts, shapes, links, files, cell, cell_ebeam_gc,
                         cell_ebeam_y, xyt, instvars, outvars, stdout>>
       \/ Raises("create_cell", 0, NoFile, {})

----------------------------------------------------------------------------
(* Lines 78-87: grating couplers and the test label *)

\* line 79: x,y = 60000, 16000
AssignXY ==
    /\ pc = "L79"
    /\ x' = 60000
    /\ y' = 16000
    /\ pc' = Succ(pc)
    /\ UNCHANGED <<exc, config, layout, files, libnames, t, instvars, outvars, stdout, calls>>

\* line 80: t = Trans(Trans.R0,x,y)
AssignT1 ==
    /\ pc = "L80"
    /\ t' = Trans("R0", x, y)
    /\ pc' = Succ(pc)
    /\ UNCHANGED <<exc, config, layout, files, libnames, x, y, instvars, outvars, stdout, calls>>

\* cell.insert(CellInstArray(c.cell_index(), trans)): the instances after it
Insert(c, trans) ==
    Append(insts, [ci |-> c, parent |-> cell, trans |-> trans, at |-> NoPin])

\* line 81
InsertGC1 ==
    /\ pc = "L81"
    /\ \/ /\ Returns("insert", cell, NoFile)
          /\ insts' = Insert(cell_ebeam_gc, t)
          /\ instGC1' = Len(insts) + 1
          /\ UNCHANGED <<config, ly_cells, shapes, links, files, libnames, xyt, instGC2,
                         instTaper1, instY1, instTaper2, instY2, outvars, stdout>>
       \/ Raises("insert", cell, NoFile, {})

\* line 82: t = Trans(Trans.R0,x,y+127000)
\* (faulty variant: t is not moved by the pitch)
AssignT2_NoPitch ==
    /\ pc = "L82"
    /\ t' = Trans("R0", x, y)
    /\ pc' = Succ(pc)
    /\ UNCHANGED <<exc, config, layout, files, libnames, x, y, instvars, outvars, stdout, calls>>

AssignT2 ==
    /\ pc = "L82"
    /\ t' = Trans("R0", x, y + 127000)
    /\ pc' = Succ(pc)
    /\ UNCHANGED <<exc, config, layout, files, libnames, x, y, instvars, outvars, stdout, calls>>

\* line 83
InsertGC2 ==
    /\ pc = "L83"
    /\ \/ /\ Returns("insert", cell, NoFile)
          /\ insts' = Insert(cell_ebeam_gc, t)
          /\ instGC2' = Len(insts) + 1
          /\ UNCHANGED <<config, ly_cells, shapes, links, files, libnames, xyt, instGC1,
                         instTaper1, instY1, instTaper2, instY2, outvars, stdout>>
       \/ Raises("insert", cell, NoFile, {})

\* line 86: text = Text("opt_in_TE_1310_device_%s_MZI1" % designer_name, t)
\* (faulty variant: the label is built at the first coupler's transform)
MakeText_AtFirst ==
    /\ pc = "L86"
    /\ text' = [string |-> PercentS("opt_in_TE_1310_device_", "_MZI1", designer_name),
                trans |-> Trans("R0", x, y)]
    /\ pc' = Succ(pc)
    /\ UNCHANGED <<exc, config, layout, files, libnames, xyt, instvars, file_out,
                   file_lyrdb, num_errors, stdout, calls>>

MakeText ==
    /\ pc = "L86"
    /\ text' = [string |-> PercentS("opt_in_TE_1310_device_", "_MZI1", designer_name),
                trans |-> t]
    /\ pc' = Succ(pc)
    /\ UNCHANGED <<exc, config, layout, files, libnames, xyt, instvars, file_out,
                   file_lyrdb, num_errors, stdout, calls>>

\* line 87: cell.shapes(ly.layer(ly.TECHNOLOGY['Text'])).insert(text)
\* (the text_size given to the inserted shape is not part of the state)
InsertText ==
    /\ pc = "L87"
    /\ \/ /\ Returns("insert_text", cell, NoFile)
          /\ shapes' = Append(shapes, [layer |-> "Text", cell |-> cell, string |-> text.string,
                                       trans |-> text.trans, box |-> <<>>])
          /\ UNCHANGED <<config, ly_cells, insts, links, files, libnames, xyt, instvars,
                         outvars, stdout>>
       \/ Raises("insert_text", cell, NoFile, {})

----------------------------------------------------------------------------
(* Lines 89-98: pin joins and waveguides *)

\* connect_cell(instA, pinA, cellB, pinB): an instance of cellB is placed in
\* instA's parent cell with its pinB on instA's pinA
ConnectCellInsts(instA, pinA, cellB, pinB) ==
    Append(insts, [ci |-> cellB, parent |-> insts[instA].parent, trans |-> NoTrans,
                   at |-> [inst |-> instA, pin |-> pinA, pinB |-> pinB]])

ConnectCellLinks(instA, pinA, pinB) ==
    Append(links, [kind |-> "join", a |-> <<instA, pinA>>, b |-> <<Len(insts) + 1, pinB>>,
                   waveguide_type |-> "", turtle_B |-> <<>>])

\* the effect of connect_cell on everything but the name it is assigned to
ConnectCell(instA, pinA, cellB, pinB) ==
    /\ Returns("connect_cell", insts[instA].parent, NoFile)
    /\ insts' = ConnectCellInsts(instA, pinA, cellB, pinB)
    /\ links' = ConnectCellLinks(instA, pinA, pinB)
    /\ UNCHANGED <<config, ly_cells, shapes, files, libnames, xyt, outvars, stdout>>

\* line 90: instTaper1 = connect_cell(instGC1, 'opt1', cell_ebeam_taper, 'opt1')
ConnectTaper1 ==
    /\ pc = "L90"
    /\ \/ /\ ConnectCell(instGC1, "opt1", cell_ebeam_taper, "opt1")
          /\ instTaper1' = Len(insts) + 1
          /\ UNCHANGED <<instGC1, instGC2, instY1, instTaper2, instY2>>
       \/ Raises("connect_cell", cell, NoFile, {})

\* line 91: instY1 = connect_cell(instTaper1, 'opt2', cell_ebeam_y, 'opt1')
ConnectY1 ==
    /\ pc = "L91"
    /\ \/ /\ ConnectCell(instTaper1, "opt2", cell_ebeam_y, "opt1")
          /\ instY1' = Len(insts) + 1
          /\ UNCHANGED <<instGC1, instGC2, instTaper1, instTaper2, instY2>>
       \/ Raises("connect_cell", cell, NoFile, {})

\* line 92: instTaper2 = connect_cell(instGC2, 'opt1', cell_ebeam_taper, 'opt1')
ConnectTaper2 ==
    /\ pc = "L92"
    /\ \/ /\ ConnectCell(instGC2, "opt1", cell_ebeam_taper, "opt1")
          /\ instTaper2' = Len(insts) + 1
          /\ UNCHANGED <<instGC1, instGC2, instTaper1, instY1, instY2>>
       \/ Raises("connect_cell", cell, NoFile, {})

\* line 93: instY2 = connect_cell(instTaper2, 'opt2', cell_ebeam_y, 'opt1')
ConnectY2 ==
    /\ pc = "L93"
    /\ \/ /\ ConnectCell(instTaper2, "opt2", cell_ebeam_y, "opt1")
          /\ instY2' = Len(insts) + 1
          /\ UNCHANGED <<instGC1, instGC2, instTaper1, instY1, instTaper2>>
       \/ Raises("connect_cell", cell, NoFile, {})

\* the pins the script names on each library cell (lines 90-98)
CellPins(name) ==
    CASE name = "ebeam_GC_SiN_TE_1310_8deg" -> { "opt1" }
      [] name = "taper_bezier"              -> { "opt1", "opt2" }
      [] name = "ebeam_YBranch_te1310"      -> { "opt1", "opt2", "opt3" }
      [] OTHER                              -> {}

\* line 64
waveguide_type2 == "SiN Strip TE 1310 nm, w=800 nm"

\* connect_pins_with_waveguide(instA, pinA, instB, pinB, waveguide_type, turtle_B)
ConnectPinsWithWaveguide(instA, pinA, instB, pinB, wtype, turtle) ==
    /\ Returns("connect_pins_with_waveguide", insts[instA].parent, NoFile)
    /\ links' = Append(links, [kind |-> "waveguide", a |-> <<instA, pinA>>,
                               b |-> <<instB, pinB>>, waveguide_type |-> wtype,
                               turtle_B |-> turtle])
    /\ UNCHANGED <<config, ly_cells, insts, shapes, files, libnames, xyt, instvars,
                   outvars, stdout>>

\* line 97
Route1 ==
    /\ pc = "L97"
    /\ \/ ConnectPinsWithWaveguide(instY1, "opt2", instY2, "opt3", waveguide_type2,
                                   <<60, 0 - 90>>)
       \/ Raises("connect_pins_with_waveguide", cell, NoFile, {})

\* line 98
\* (faulty variant: the second route is not crossed)
Route2_SamePins ==
    /\ pc = "L98"
    /\ \/ ConnectPinsWithWaveguide(instY1, "opt3", instY2, "opt3", waveguide_type2,
                                   <<60 + 50, 0 - 90>>)
       \/ Raises("connect_pins_with_waveguide", cell, NoFile, {})

Route2 ==
    /\ pc = "L98"
    /\ \/ ConnectPinsWithWaveguide(instY1, "opt3", instY2, "opt2", waveguide_type2,
                                   <<60 + 50, 0 - 90>>)
       \/ Raises("connect_pins_with_waveguide", cell, NoFile, {})

----------------------------------------------------------------------------
(* Lines 100-131: the alternate MZI, under `if 0:` *)

\* the condition of line 100
AlternateMZI == 0

\* lines 102-114 place two more couplers and a second label; line 117 then
\* reads cell_ebeam_y_dream, a name nothing binds, and raises NameError
AlternateBranch ==
    /\ pc = "L100"
    /\ pc' = "error"
    /\ exc' = "NameError"
    /\ ly_cells' = CreateCell("spiral_paperclip", "EBeam_Beta")
    /\ x' = 60000
    /\ y' = 205000
    /\ t' = Trans("R0", 60000, 205000 + 127000)
    /\ insts' = insts \o
                << [ci |-> cell_ebeam_gc, parent |-> cell,
                    trans |-> Trans("R0", 60000, 205000), at |-> NoPin],
                   [ci |-> cell_ebeam_gc, parent |-> cell,
                    trans |-> Trans("R0", 60000, 205000 + 127000), at |-> NoPin] >>
    /\ instGC1' = Len(insts) + 1
    /\ instGC2' = Len(insts) + 2
    /\ text' = [string |-> PercentS("opt_in_TE_1550_device_", "_MZI3", designer_name),
                trans |-> Trans("R0", 60000, 205000 + 127000)]
    /\ shapes' = Append(shapes, [layer |-> "Text", cell |-> cell, string |-> text'.string,
                                 trans |-> text'.trans, box |-> <<>>])
    /\ calls' = calls \o
                << [op |-> "create_cell", target |-> 0, file |-> NoFile, ok |-> TRUE],
                   [op |-> "insert", target |-> cell, file |-> NoFile, ok |-> TRUE],
                   [op |-> "insert", target |-> cell, file |-> NoFile, ok |-> TRUE],
                   [op |-> "insert_text", target |-> cell, file |-> NoFile, ok |-> TRUE] >>
    /\ UNCHANGED <<config, links, files, cell, cell_ebeam_gc, cell_ebeam_y,
                   cell_ebeam_taper, instTaper1, instY1, instTaper2, instY2,
                   file_out, file_lyrdb, num_errors, stdout>>

\* line 100
DisabledBranch ==
    /\ pc = "L100"
    /\ IF Truthy(AlternateMZI)
       THEN AlternateBranch
       ELSE /\ pc' = Succ(pc)
            /\ UNCHANGED <<exc, config, layout, files, libnames, xyt, instvars, outvars,
                           stdout, calls>>

----------------------------------------------------------------------------
(* Lines 133-153: zoom, export, verification, preview *)

\* line 134
ZoomOut ==
    /\ pc = "L134"
    /\ \/ /\ Returns("zoom_out", cell, NoFile)
          /\ UNCHANGED <<config, layout, files, libnames, xyt, instvars, outvars, stdout>>
       \/ Raises("zoom_out", cell, NoFile, {})

\* the files of lines 140-146
OasFile   == Join(path, << "..", filename \o ".oas" >>)
PngFile   == Join(path, << "..", filename \o ".png" >>)
LyrdbFile == Join(path, << filename \o ".lyrdb" >>)

\* line 139: if export_type == 'static':
\* (faulty variant: the test is inverted)
ExportBranch_Inverted ==
    /\ pc = "L139"
    /\ pc' = IF export_type # "static" THEN "L140" ELSE "L142"
    /\ UNCHANGED <<exc, config, layout, files, libnames, xyt, instvars, outvars, stdout, calls>>

ExportBranch ==
    /\ pc = "L139"
    /\ pc' = IF export_type = "static" THEN "L140" ELSE "L142"
    /\ UNCHANGED <<exc, config, layout, files, libnames, xyt, instvars, outvars, stdout, calls>>

\* line 140: file_out = export_layout(cell, path, filename, relative_path='..',
\*                                    format='oas', screenshot=True)
ExportLayout ==
    /\ pc = "L140"
    /\ \/ /\ pc' = "L146"
          /\ exc' = exc
          /\ calls' = Called("export_layout", cell, OasFile, TRUE)
          /\ file_out' = OasFile
          /\ files' = files \cup {OasFile, PngFile}
          /\ UNCHANGED <<config, layout, libnames, xyt, instvars, text, file_lyrdb,
                         num_errors, stdout>>
       \/ Raises("export_layout", cell, OasFile, {OasFile, PngFile})

\* line 142: file_out = os.path.join(path,'..',filename+'.oas')
AssignFileOut ==
    /\ pc = "L142"
    /\ file_out' = OasFile
    /\ pc' = Succ(pc)
    /\ UNCHANGED <<exc, config, layout, files, libnames, xyt, instvars, text, file_lyrdb,
                   num_errors, stdout, calls>>

\* line 143: ly.write(file_out) writes the whole layout, not one cell
LyWrite ==
    /\ pc = "L143"
    /\ \/ /\ Returns("ly.write", 0, file_out)
          /\ files' = files \cup {file_out}
          /\ UNCHANGED <<config, layout, libnames, xyt, instvars, outvars, stdout>>
       \/ Raises("ly.write", 0, file_out, {file_out})

\* line 146: file_lyrdb = os.path.join(path,filename+'.lyrdb')
AssignFileLyrdb ==
    /\ pc = "L146"
    /\ file_lyrdb' = LyrdbFile
    /\ pc' = Succ(pc)
    /\ UNCHANGED <<exc, config, layout, files, libnames, xyt, instvars, text, file_out,
                   num_errors, stdout, calls>>

\* line 147: num_errors = layout_check(cell=cell, verbose=False, GUI=True,
\*                                     file_rdb=file_lyrdb)
LayoutCheck ==
    /\ pc = "L147"
    /\ \/ /\ Returns("layout_check", cell, file_lyrdb)
          /\ \E n \in 0..MaxErrors : num_errors' = n
          /\ files' = files \cup {file_lyrdb}
          /\ UNCHANGED <<config, layout, libnames, xyt, instvars, text, file_out,
                         file_lyrdb, stdout>>
       \/ Raises("layout_check", cell, file_lyrdb, {file_lyrdb})

\* line 148: print('Number of errors: %s' % num_errors)
\* (faulty variant: a positive count stops the run)
PrintErrors_Gated ==
    /\ pc = "L148"
    /\ stdout' = Append(stdout, PercentS("Number of errors: ", "", ToString(num_errors)))
    /\ pc' = IF num_errors > 0 THEN "done" ELSE Succ(pc)
    /\ UNCHANGED <<exc, config, layout, files, libnames, xyt, instvars, outvars, calls>>

PrintErrors ==
    /\ pc = "L148"
    /\ stdout' = Append(stdout, PercentS("Number of errors: ", "", ToString(num_errors)))
    /\ pc' = Succ(pc)
    /\ UNCHANGED <<exc, config, layout, files, libnames, xyt, instvars, outvars, calls>>

\* line 151: if Python_Env == 'Script':
PreviewBranch ==
    /\ pc = "L151"
    /\ pc' = IF Python_Env = "Script" THEN "L153" ELSE "done"
    /\ UNCHANGED <<exc, config, layout, files, libnames, xyt, instvars, outvars, stdout, calls>>

\* line 153: klive.show(file_out, lyrdb_filename=file_lyrdb, technology=tech_name)
KliveShow ==
    /\ pc = "L153"
    /\ \/ /\ Returns("klive.show", 0, file_out)
          /\ UNCHANGED <<config, layout, files, libnames, xyt, instvars, outvars, stdout>>
       \/ Raises("klive.show", 0, file_out, {})

----------------------------------------------------------------------------
Next ==
    \/ AssignTopCellName
    \/ PrintBanner
    \/ VersionGuard
    \/ NewLayout
    \/ Floorplan
    \/ CreateCellGC
    \/ CreateCellY
    \/ CreateCellTaper
    \/ AssignXY
    \/ AssignT1
    \/ InsertGC1
    \/ AssignT2
    \/ InsertGC2
    \/ MakeText
    \/ InsertText
    \/ ConnectTaper1
    \/ ConnectY1
    \/ ConnectTaper2
    \/ ConnectY2
    \/ Route1
    \/ Route2
    \/ DisabledBranch
    \/ ZoomOut
    \/ ExportBranch
    \/ ExportLayout
    \/ AssignFileOut
    \/ LyWrite
    \/ AssignFileLyrdb
    \/ LayoutCheck
    \/ PrintErrors
    \/ PreviewBranch
    \/ KliveShow

Spec == Init /\ [][Next]_vars

----------------------------------------------------------------------------
(* What the properties below read off a state *)

VersionMessage == "Errors: This example requires SiEPIC-Tools version 0.5.4 or greater."

CallIdx(ops)  == { i \in 1..Len(calls) : calls[i].op \in ops }
OkIdx(ops)    == { i \in CallIdx(ops) : calls[i].ok }
ExportOps     == { "export_layout", "ly.write" }
CellOps       == { "floorplan", "insert", "insert_text", "connect_cell",
                   "connect_pins_with_waveguide", "zoom_out", "export_layout",
                   "layout_check" }
InstsOf(name) == { i \in 1..Len(insts) : ly_cells[insts[i].ci].name = name }
GCInsts       == InstsOf("ebeam_GC_SiN_TE_1310_8deg")
TextShapes    == { i \in 1..Len(shapes) : shapes[i].layer = "Text" }
TopCells      == { i \in 1..Len(ly_cells) : ly_cells[i].kind = "top" }
Uninstantiated == { i \in 1..Len(ly_cells) : \A k \in 1..Len(insts) : insts[k].ci # i }
EndCount(i, p) ==
    Cardinality({ k \in 1..Len(links) : links[k].a = <<i, p>> })
    + Cardinality({ k \in 1..Len(links) : links[k].b = <<i, p>> })
AfterGuard    == pc \notin { "L25", "L44", "L49" }
AfterExport   == pc \in { "L146", "L147", "L148", "L151", "L153", "done" }

----------------------------------------------------------------------------
(* C1: with an installed version below 0.5.4 the run ends at the guard with *)
(* the version exception and no library call, cell, instance, shape, link   *)
(* or file; with 0.5.4 or above the exception is not raised and the next    *)
(* thing the script does is new_layout.                                     *)
C1_VersionGuard ==
    LET low == SiEPIC_version[1] * 10000 + SiEPIC_version[2] * 100 + SiEPIC_version[3] < 504
    IN  /\ (AfterGuard /\ low) =>
            /\ pc = "error"
            /\ exc = VersionMessage
            /\ calls = <<>>
            /\ ly_cells = <<>> /\ insts = <<>> /\ shapes = <<>> /\ links = <<>>
            /\ files = {}
        /\ (AfterGuard /\ ~low) =>
            /\ exc # VersionMessage
            /\ pc = "L57" \/ (calls # <<>> /\ calls[1].op = "new_layout")

C1_Witness ==
    /\ pc = "error"
    /\ exc = VersionMessage
    /\ SiEPIC_version = <<0, 5, 3>>

(* C2: never more than two grating-coupler instances; after a complete run *)
(* exactly two, in the top cell, at the same x and 127000 apart in y.       *)
C2_TwoGratingCouplers ==
    /\ Cardinality(GCInsts) <= 2
    /\ pc = "done" =>
        \E i, j \in GCInsts :
            /\ GCInsts = {i, j}
            /\ i # j
            /\ insts[i].parent = cell /\ insts[j].parent = cell
            /\ insts[i].trans.x = insts[j].trans.x
            /\ insts[j].trans.y - insts[i].trans.y = 127000

C2_Witness ==
    /\ pc = "done"
    /\ Cardinality(GCInsts) = 2
    /\ Len(insts) = 6

(* C3: never more than one text label, always with the 1310 MZI1 content    *)
(* for the designer name; after a complete run exactly one.                 *)
C3_OneLabel ==
    /\ Cardinality(TextShapes) <= 1
    /\ \A i \in TextShapes :
           shapes[i].string = "opt_in_TE_1310_device_" \o designer_name \o "_MZI1"
    /\ pc = "done" => Cardinality(TextShapes) = 1

C3_Witness ==
    /\ pc = "done"
    /\ \E i \in TextShapes :
           shapes[i].string = "opt_in_TE_1310_device_LukasChrostowski_MZI1"

(* C4: new_layout is called at most once; once it returned there is exactly *)
(* one top cell, named EBeam_<designer_name>_MZI, every later cell          *)
(* operation, instance and shape is on that cell (ly.write takes the layout *)
(* that holds it), and after a complete run it is the only cell no instance *)
(* refers to.                                                               *)
C4_OneTopCell ==
    /\ Cardinality(CallIdx({"new_layout"})) <= 1
    /\ Cardinality(TopCells) <= 1
    /\ OkIdx({"new_layout"}) # {} =>
        /\ TopCells = {cell}
        /\ ly_cells[cell].name = "EBeam_" \o designer_name \o "_MZI"
    /\ \A i \in CallIdx(CellOps) : calls[i].target = cell /\ cell \in TopCells
    /\ \A i \in 1..Len(insts) : insts[i].parent = cell
    /\ \A i \in 1..Len(shapes) : shapes[i].cell = cell
    /\ pc = "done" => Uninstantiated = {cell}

C4_Witness ==
    /\ pc = "done"
    /\ ly_cells[cell].name = "EBeam_LukasChrostowski_MZI"
    /\ Cardinality(CallIdx(CellOps)) >= 12

(* C5: whatever count layout_check returned, the export was done before it, *)
(* the count is printed, and the only thing that decides whether the        *)
(* preview runs is Python_Env.                                              *)
C5_ErrorsNeverBlock ==
    /\ num_errors # Unbound =>
        /\ OkIdx(ExportOps) # {}
        /\ file_out \in files
        /\ pc \in { "L148", "L151", "L153", "done", "error" }
        /\ pc # "L148" =>
               stdout[Len(stdout)] = "Number of errors: " \o ToString(num_errors)
        /\ pc = "error" => calls[Len(calls)].op = "klive.show"
    /\ pc = "L153" => Python_Env = "Script"
    /\ pc = "done" => (OkIdx({"klive.show"}) # {} <=> Python_Env = "Script")

C5_Witness ==
    /\ pc = "done"
    /\ num_errors > 0
    /\ Python_Env = "Script"
    /\ OkIdx({"klive.show"}) # {}

(* C6: 'static' runs export_layout and never ly.write, 'PCell' runs         *)
(* ly.write and never export_layout; past the export step exactly one of    *)
(* the two has run and file_out is the file it wrote, which is what         *)
(* layout_check follows and klive.show is given.                            *)
C6_ExportMode ==
    /\ Cardinality(CallIdx(ExportOps)) <= 1
    /\ export_type = "static" => CallIdx({"ly.write"}) = {}
    /\ export_type = "PCell" => CallIdx({"export_layout"}) = {}
    /\ AfterExport =>
        /\ Cardinality(OkIdx(ExportOps)) = 1
        /\ export_type = "static" => OkIdx({"export_layout"}) # {}
        /\ export_type = "PCell" => OkIdx({"ly.write"}) # {}
        /\ \A i \in OkIdx(ExportOps) : calls[i].file = file_out
        /\ file_out # NoFile
        /\ file_out \in files
    /\ CallIdx({"layout_check"}) # {} => file_out \in files
    /\ \A i \in CallIdx({"klive.show"}) : calls[i].file = file_out /\ file_out \in files

C6_Witness ==
    /\ pc = "done"
    /\ export_type = "PCell"
    /\ OkIdx({"ly.write"}) # {}
    /\ OkIdx({"klive.show"}) # {}

(* C7: a library call that raised is the last call of the run and the run   *)
(* is in the error state, from which nothing changes any more; if the call  *)
(* that raised comes before the export step, no file has been written.      *)
C7_FailureTerminates ==
    /\ [](\A i \in 1..Len(calls) :
            ~calls[i].ok =>
                /\ i = Len(calls)
                /\ pc = "error"
                /\ exc = "LibraryError"
                /\ calls[i].op \notin (ExportOps \cup {"layout_check", "klive.show"})
                       => files = {} /\ file_out = NoFile /\ num_errors = Unbound)
    /\ [][pc = "error" => UNCHANGED vars]_vars

C7_Witness ==
    /\ pc = "error"
    /\ exc = "LibraryError"
    /\ calls[Len(calls)].op = "connect_pins_with_waveguide"
    /\ ~calls[Len(calls)].ok
    /\ Len(links) = 5
    /\ files = {}

(* C8: once both waveguides are routed the links are exactly the four pin   *)
(* joins coupler-taper-Y on the two arms followed by the two crossed        *)
(* waveguides, and every pin of every taper and Y-branch instance is an     *)
(* endpoint of exactly one link.                                            *)
C8_ConnectionGraph ==
    Len(links) >= 6 =>
        /\ [k \in 1..Len(links) |-> <<links[k].kind, links[k].a, links[k].b>>] =
             << <<"join", <<instGC1, "opt1">>, <<instTaper1, "opt1">> >>,
                <<"join", <<instTaper1, "opt2">>, <<instY1, "opt1">> >>,
                <<"join", <<instGC2, "opt1">>, <<instTaper2, "opt1">> >>,
                <<"join", <<instTaper2, "opt2">>, <<instY2, "opt1">> >>,
                <<"waveguide", <<instY1, "opt2">>, <<instY2, "opt3">> >>,
                <<"waveguide", <<instY1, "opt3">>, <<instY2, "opt2">> >> >>
        /\ Cardinality({instGC1, instGC2, instTaper1, instTaper2, instY1, instY2}) = 6
        /\ InstsOf("taper_bezier") = {instTaper1, instTaper2}
        /\ InstsOf("ebeam_YBranch_te1310") = {instY1, instY2}
        /\ GCInsts = {instGC1, instGC2}
        /\ \A i \in InstsOf("taper_bezier") \cup InstsOf("ebeam_YBranch_te1310") :
               \A p \in CellPins(ly_cells[insts[i].ci].name) : EndCount(i, p) = 1

C8_Witness ==
    /\ pc = "L100"
    /\ Len(links) = 6
    /\ EndCount(instY2, "opt2") = 1

(* C9: layout_check is called at most once, after a completed export and    *)
(* after both waveguides; the count is printed and the preview is called    *)
(* only after it; the export is called only when the six instances, the     *)
(* label and both waveguides exist.                                         *)
C9_VerificationOrder ==
    /\ Cardinality(CallIdx({"layout_check"})) <= 1
    /\ \A i \in CallIdx({"layout_check"}) :
        /\ \E j \in OkIdx(ExportOps) : j < i
        /\ Cardinality({ j \in OkIdx({"connect_pins_with_waveguide"}) : j < i }) = 2
        /\ \A j \in CallIdx({"klive.show"}) : i < j
    /\ pc \in { "L147" } => Len(stdout) = 1
    /\ Len(stdout) > 1 => OkIdx({"layout_check"}) # {}
    /\ CallIdx({"klive.show"}) # {} => OkIdx({"layout_check"}) # {} /\ Len(stdout) = 2
    /\ CallIdx(ExportOps) # {} =>
        /\ Len(insts) = 6
        /\ Cardinality(TextShapes) = 1
        /\ Cardinality({ k \in 1..Len(links) : links[k].kind = "waveguide" }) = 2

C9_Witness ==
    /\ pc = "done"
    /\ OkIdx({"layout_check"}) # {}
    /\ OkIdx({"klive.show"}) # {}
    /\ Len(stdout) = 2

(* C10: the label sits at (60000, 16000 + 127000), the transform of the     *)
(* second coupler instGC2, where a coupler instance exists, and not at the  *)
(* transform of instGC1.                                                    *)
C10_LabelAtSecondCoupler ==
    \A s \in TextShapes :
        /\ shapes[s].trans = [rot |-> "R0", x |-> 60000, y |-> 143000]
        /\ shapes[s].trans = insts[instGC2].trans
        /\ shapes[s].trans # insts[instGC1].trans
        /\ \E i \in GCInsts : insts[i].trans = shapes[s].trans

C10_Witness ==
    /\ pc = "done"
    /\ \E s \in TextShapes : shapes[s].trans.y = 143000 /\ shapes[s].trans.x = 60000

====
